---- MODULE Spec2Model ----
(***************************************************************************)
(* Model of src/src/App.tsx: the webcam monitor component.                 *)
(*                                                                         *)
(* The component's React state (detection, capturedFrames) changes only   *)
(* when React renders: a call of setDetection / setCapturedFrames puts an  *)
(* update in a queue, and the render applies the queued updates in order.  *)
(* Functional updaters (prev => ...) run at that moment, side effects      *)
(* included.  Refs (xxxRef.current) and the browser objects change at once.*)
(*                                                                         *)
(* Spec is the monitoring lifecycle (start, camera, ticks, renders, stop,  *)
(* unmount); AlarmSpec is startAlarm / stopAlarm under an advancing audio  *)
(* clock; TimelapseSpec is createTimelapse and its callbacks over the      *)
(* frames of a running session; SamplingSpec is the ticks of one session   *)
(* over buffers of 1 and 100 pixels with the slider moving; MonitoredSpec  *)
(* is one timelapse run interleaved with the ticks and the stop of its     *)
(* session.                                                                *)
(***************************************************************************)
EXTENDS Integers, Sequences, FiniteSets, TLC

NULL == "null"

\* ------------------------------------------------------------------ bounds
\* Granularity of the wall clock (ms) and the span of time explored.
TimeStep == 500
MaxElapsed == 1500
\* Date.now() when the page is loaded (any value above the cooldown; the
\* real value is about 1.7e12 and does not fit TLC's integers).
PageLoadTime == 2000
\* Updates that may wait for a render.
MaxQueue == 3
\* getUserMedia calls in flight; live intervals; streams with live tracks.
MaxPending == 2
MaxIntervals == 2
MaxStreams == 2

\* ------------------------------------------------------- program constants
CAPTURE_COOLDOWN == 1000
InitialSensitivity == 30
InitialLastCaptureTime == 0

\* ------------------------------------------------------------ pixel buffers
\* ImageData: width, height and the RGBA bytes, row by row.
Dark == [width |-> 1, height |-> 1, data |-> <<0, 0, 0, 255>>]
Flame == [width |-> 1, height |-> 1, data |-> <<255, 0, 0, 255>>]
VideoFrames == {Dark, Flame}

\* previousFrameRef.current before any frame was stored (null).
NoFrame == [width |-> 0, height |-> 0, data |-> << >>]

Abs(x) == IF x < 0 THEN -x ELSE x

\* The pixel offsets 0, 4, 8, ... of the loops (1-based in the sequences).
PixelOffsets(data) == {i \in 0..(Len(data) - 1) : i % 4 = 0}

FirePixel(data, i) == data[i + 1] > 200 /\ data[i + 2] < 140 /\ data[i + 3] < 40

\* firePercentage > 1, with firePercentage = firePixels / totalPixels * 100.
detectFire(imageData) ==
    LET firePixels == Cardinality({i \in PixelOffsets(imageData.data) :
                                      FirePixel(imageData.data, i)})
        totalPixels == imageData.width * imageData.height
    IN firePixels * 100 > totalPixels

\* A Uint8ClampedArray read: a byte inside the array, undefined past its end.
Defined(data, i) == i + 1 =< Len(data)

PixelDiff(cur, prev, i) ==
    Abs(cur[i + 1] - prev[i + 1]) + Abs(cur[i + 2] - prev[i + 2])
        + Abs(cur[i + 3] - prev[i + 3])

\* A pixel counted only when its difference exceeds 300.
ChangedBright(cur, prev, i) ==
    Defined(prev, i + 2) /\ PixelDiff(cur, prev, i) > 300

\* if (diff > 100) diffCount++.  Where the previous buffer is shorter its
\* bytes are undefined, diff is NaN and NaN > 100 is false.
Changed(cur, prev, i) ==
    Defined(prev, i + 2) /\ PixelDiff(cur, prev, i) > 100

\* The loop runs over the current buffer.
DiffCount(currentFrame, previousFrame) ==
    Cardinality({i \in PixelOffsets(currentFrame.data) :
                    Changed(currentFrame.data, previousFrame.data, i)})

\* A threshold that is met when the percentage reaches it.
ReachesThreshold(diffCount, totalPixels, sens) ==
    diffCount * 300 >= (100 - sens) * totalPixels

\* diffPercentage > (100 - sensitivity) / 3, with diffPercentage =
\* diffCount / totalPixels * 100; both sides multiplied by 3 * totalPixels.
ExceedsThreshold(diffCount, totalPixels, sens) ==
    diffCount * 300 > (100 - sens) * totalPixels

\* totalPixels is the size of the canvas the current buffer was read from.
MotionHeuristic(currentFrame, previousFrame, sens) ==
    ExceedsThreshold(DiffCount(currentFrame, previousFrame),
                     currentFrame.width * currentFrame.height, sens)

\* The RGBA bytes of a row of pixels given by their colours (alpha 255), and
\* of n black pixels.
RECURSIVE Bytes(_)
Bytes(pixels) ==
    IF pixels = << >> THEN << >>
    ELSE Head(pixels) \o << 255 >> \o Bytes(Tail(pixels))

RECURSIVE BlackBytes(_)
BlackBytes(n) == IF n = 0 THEN << >> ELSE << 0, 0, 0, 255 >> \o BlackBytes(n - 1)

\* An ImageData of w x h pixels: the colours of `pixels` come first, the
\* other pixels are black.
ImageData(w, h, pixels) ==
    [width |-> w, height |-> h,
     data |-> Bytes(pixels) \o BlackBytes(w * h - Len(pixels))]

\* Buffers of a 10 x 10 video: black; one flame pixel (1 % of the pixels);
\* two flame pixels beside three pixels that miss one bound of the fire
\* colour each; one pixel that differs from black by exactly 100.
Field == ImageData(10, 10, << >>)
OneFlame == ImageData(10, 10, << <<255, 0, 0>> >>)
TwoFlames ==
    ImageData(10, 10, << <<255, 0, 0>>, <<201, 139, 39>>, <<200, 0, 0>>,
                         <<255, 140, 0>>, <<255, 0, 40>> >>)
Faint == ImageData(10, 10, << <<100, 0, 0>> >>)
\* A buffer of a 20 x 5 video: as many bytes as a 10 x 10 one.
Wide == ImageData(20, 5, << <<255, 0, 0>> >>)

SampledFrames == {Dark, Flame, Field, OneFlame, TwoFlames, Faint, Wide}

\* ------------------------------------------------------------------ alarm
\* The gain events startAlarm schedules, at AudioContext time `t` (ms).
GainSchedule(t) ==
    << [at |-> t, value |-> 1], [at |-> t + 200, value |-> 0],
       [at |-> t + 400, value |-> 1], [at |-> t + 600, value |-> 0] >>

\* AudioParam.setValueAtTime: the value of the latest event at or before t.
GainAt(events, t) ==
    LET past == {k \in 1..Len(events) : events[k].at =< t}
    IN IF past = {} THEN 1
       ELSE events[CHOOSE k \in past : \A j \in past : j =< k].value

\* oscillatorRef.current when no oscillator is referenced (null).
NoOscillator == [gain |-> << >>]

\* A startAlarm without the early return on an existing oscillator.
startAlarmAgain(audio, t) ==
    [audio EXCEPT !.audioContextRef = "context",
                  !.oscillatorRef = [gain |-> GainSchedule(t)],
                  !.sounding = @ + 1]

\* The audio state is the record of audioContextRef, oscillatorRef and the
\* number of oscillators that were started and not stopped.
startAlarm(audio, t) ==
    LET withContext == [audio EXCEPT !.audioContextRef = "context"]
    IN IF audio.oscillatorRef # NoOscillator THEN withContext
       ELSE [withContext EXCEPT !.oscillatorRef = [gain |-> GainSchedule(t)],
                                !.sounding = @ + 1]

stopAlarm(audio) ==
    IF audio.oscillatorRef # NoOscillator
    THEN [audio EXCEPT !.oscillatorRef = NoOscillator, !.sounding = @ - 1]
    ELSE audio

\* ------------------------------------------------------------------ state
VARIABLES
    mounted,              \* the component is mounted
    detection,            \* useState<DetectionState>, as last rendered
    detectionQueue,       \* setDetection calls not yet rendered
    capturedFrames,       \* useState<CapturedFrame[]>, as last rendered
    framesQueue,          \* setCapturedFrames calls not yet rendered
    error,                \* useState<string>
    sensitivity,          \* useState(30)
    pendingCamera,        \* getUserMedia calls in flight, by captured sensitivity
    srcObject,            \* videoRef.current.srcObject
    hasVideoSize,         \* video.videoWidth and videoHeight are nonzero
    metadataEvent,        \* a loadedmetadata event is queued, not yet dispatched
    onloadedmetadata,     \* the handler on the video: the sensitivity it closes over
    liveStreams,          \* acquired streams whose tracks were not stopped
    intervals,            \* scheduled setInterval timers, by captured sensitivity
    detectionIntervalRef, \* the timer the ref names (by its closure), or NULL
    previousFrameRef,
    lastCaptureTimeRef,
    now,                  \* Date.now()
    audioContextRef,
    oscillatorRef,
    sounding,             \* oscillators started and not stopped
    audioTime,            \* AudioContext.currentTime, in ms
    lastRequest,          \* history: the last of "start", "stop", "unmount"
    startCalls,           \* history: direct startAlarm calls since the last stopAlarm
    sampled,              \* history: a tick has run since the last onloadedmetadata
    runs                  \* the createTimelapse runs, in the order of their invocation

cameraVars == << pendingCamera, srcObject, hasVideoSize, metadataEvent,
                 onloadedmetadata, liveStreams, intervals, detectionIntervalRef >>
reactVars == << mounted, detection, detectionQueue, capturedFrames, framesQueue,
                error, sensitivity >>
tickVars == << previousFrameRef, lastCaptureTimeRef >>
audioVars == << audioContextRef, oscillatorRef, sounding >>
aside == << startCalls, runs, sampled >>
history == << lastRequest, aside >>
vars == << reactVars, cameraVars, tickVars, now, audioVars, audioTime, history >>

Sensitivities == {30, 100}

\* A handler or timer is modelled by the sensitivity its closure captured
\* (detectMotion reads the `sensitivity` of the render that created it);
\* NoClosure stands for no handler, no timer (undefined).
NoClosure == 0 - 1

Audio == [audioContextRef |-> audioContextRef, oscillatorRef |-> oscillatorRef,
          sounding |-> sounding]

SetAudio(a) ==
    /\ audioContextRef' = a.audioContextRef
    /\ oscillatorRef' = a.oscillatorRef
    /\ sounding' = a.sounding

Init ==
    /\ mounted = TRUE
    /\ detection = [isActive |-> FALSE, motionDetected |-> FALSE, fireDetected |-> FALSE]
    /\ detectionQueue = << >>
    /\ capturedFrames = << >>
    /\ framesQueue = << >>
    /\ error = ""
    /\ sensitivity = InitialSensitivity
    /\ pendingCamera = [s \in Sensitivities |-> 0]
    /\ srcObject = NULL
    /\ hasVideoSize = FALSE
    /\ metadataEvent = FALSE
    /\ onloadedmetadata = NoClosure
    /\ liveStreams = 0
    /\ intervals = [s \in Sensitivities |-> 0]
    /\ detectionIntervalRef = NoClosure
    /\ previousFrameRef = NoFrame
    /\ lastCaptureTimeRef = InitialLastCaptureTime
    /\ now = PageLoadTime
    /\ audioContextRef = NULL
    /\ oscillatorRef = NoOscillator
    /\ sounding = 0
    /\ audioTime = 0
    /\ lastRequest = "none"
    /\ startCalls = 0
    /\ sampled = FALSE
    /\ runs = << >>

\* ------------------------------------------------------- state updates
\* The functional updaters passed to setDetection; `value` is the variable
\* the closure captured (fireDetected, motionDetected).
ActiveUpdate == [op |-> "active", value |-> TRUE]
StopUpdate == [op |-> "stop", value |-> FALSE]
FireUpdate(fireDetected) == [op |-> "fire", value |-> fireDetected]
MotionUpdate(motionDetected) == [op |-> "motion", value |-> motionDetected]

\* prev => ({ ...prev, isActive: true })
ActiveUpdater(prev) == [prev EXCEPT !.isActive = TRUE]

\* A stop that clears isActive alone.
StopUpdaterKeepsFlags(prev) == [prev EXCEPT !.isActive = FALSE]

\* prev => ({ ...prev, isActive: false, motionDetected: false, fireDetected: false })
StopUpdater(prev) ==
    [prev EXCEPT !.isActive = FALSE, !.motionDetected = FALSE, !.fireDetected = FALSE]

\* prev => ({ ...prev, motionDetected })
MotionUpdater(prev, motionDetected) == [prev EXCEPT !.motionDetected = motionDetected]

\* The alarm calls of the fire updater.
FireUpdaterAlarm(prev, fireDetected, audio, t) ==
    IF fireDetected /\ ~prev.fireDetected THEN startAlarm(audio, t)
    ELSE IF ~fireDetected /\ prev.fireDetected THEN stopAlarm(audio)
    ELSE audio

\* prev => { ...alarm calls...; return { ...prev, fireDetected } }
FireUpdater(prev, fireDetected) == [prev EXCEPT !.fireDetected = fireDetected]

\* One queued update applied to the state and the audio objects.
ApplyUpdate(u, st, t) ==
    IF u.op = "active" THEN [detection |-> ActiveUpdater(st.detection), audio |-> st.audio]
    ELSE IF u.op = "stop" THEN [detection |-> StopUpdater(st.detection), audio |-> st.audio]
    ELSE IF u.op = "motion"
         THEN [detection |-> MotionUpdater(st.detection, u.value), audio |-> st.audio]
    ELSE [detection |-> FireUpdater(st.detection, u.value),
          audio |-> FireUpdaterAlarm(st.detection, u.value, st.audio, t)]

\* React processes the queue in the order of the calls.
RECURSIVE ApplyDetectionQueue(_, _, _)
ApplyDetectionQueue(queue, st, t) ==
    IF queue = << >> THEN st
    ELSE ApplyDetectionQueue(Tail(queue), ApplyUpdate(Head(queue), st, t), t)

\* setCapturedFrames(prev => [...prev, { dataUrl, timestamp: Date.now() }]):
\* the closure holds the data URL; Date.now() is inside the updater, so it
\* is read when React runs the updater.
AppendFrame(frameDataUrl) == [op |-> "append", dataUrl |-> frameDataUrl]
\* setCapturedFrames([])
ClearFrames == [op |-> "clear", dataUrl |-> ""]

\* The timestamp an append updater gives its frame when it runs at time t.
UpdaterTimestamp(t) == t

ApplyFrameUpdate(u, frames, t) ==
    IF u.op = "append"
    THEN Append(frames, [dataUrl |-> u.dataUrl, timestamp |-> UpdaterTimestamp(t)])
    ELSE << >>

RECURSIVE ApplyFramesQueue(_, _, _)
ApplyFramesQueue(queue, frames, t) ==
    IF queue = << >> THEN frames
    ELSE ApplyFramesQueue(Tail(queue), ApplyFrameUpdate(Head(queue), frames, t), t)

\* The state a render at this moment shows.
NextDetection ==
    ApplyDetectionQueue(detectionQueue, [detection |-> detection, audio |-> Audio],
                        audioTime)
NextFrames == ApplyFramesQueue(framesQueue, capturedFrames, now)

QueueRoom(n) == Len(detectionQueue) + n =< MaxQueue

\* A render of the component: every queued update is applied.
Render ==
    /\ mounted
    /\ detectionQueue # << >> \/ framesQueue # << >>
    /\ detection' = NextDetection.detection
    /\ SetAudio(NextDetection.audio)
    /\ capturedFrames' = NextFrames
    /\ detectionQueue' = << >>
    /\ framesQueue' = << >>
    /\ UNCHANGED << mounted, error, sensitivity, cameraVars, tickVars, now, audioTime,
                    history >>

\* ------------------------------------------------------------------ camera
RECURSIVE SumOver(_, _)
SumOver(f, S) ==
    IF S = {} THEN 0
    ELSE LET x == CHOOSE y \in S : TRUE IN f[x] + SumOver(f, S \ {x})

Total(f) == SumOver(f, Sensitivities)

\* startCamera up to its await: getUserMedia is called; the continuation
\* keeps the closure of the render the click happened in.
startCamera ==
    /\ Total(pendingCamera) < MaxPending
    /\ pendingCamera' = [pendingCamera EXCEPT ![sensitivity] = @ + 1]

\* getUserMedia resolves.  A mounted component still has its video element:
\* the stream becomes its srcObject (the media element starts loading anew,
\* a stream assigned before is dropped with its tracks live) and the
\* handler is installed.  After unmount videoRef.current is null.
CameraGranted(s) ==
    /\ pendingCamera[s] > 0
    /\ liveStreams < MaxStreams
    /\ pendingCamera' = [pendingCamera EXCEPT ![s] = @ - 1]
    /\ liveStreams' = liveStreams + 1
    /\ IF mounted
       THEN /\ srcObject' = "stream"
            /\ hasVideoSize' = FALSE
            /\ metadataEvent' = FALSE
            /\ onloadedmetadata' = s
            /\ error' = ""
       ELSE UNCHANGED << srcObject, hasVideoSize, metadataEvent, onloadedmetadata, error >>
    /\ UNCHANGED << mounted, detection, detectionQueue, capturedFrames, framesQueue,
                    sensitivity, intervals, detectionIntervalRef, tickVars, now,
                    audioVars, audioTime, history >>

\* A catch block that calls getUserMedia again.
CameraDeniedRetries(s) ==
    /\ pendingCamera[s] > 0
    /\ error' = IF mounted THEN "Failed to access camera" ELSE error
    /\ UNCHANGED << mounted, detection, detectionQueue, capturedFrames, framesQueue,
                    sensitivity, cameraVars, tickVars, now, audioVars, audioTime,
                    history >>

\* getUserMedia rejects: the catch block.
CameraDenied(s) ==
    /\ pendingCamera[s] > 0
    /\ pendingCamera' = [pendingCamera EXCEPT ![s] = @ - 1]
    /\ error' = IF mounted THEN "Failed to access camera" ELSE error
    /\ UNCHANGED << mounted, detection, detectionQueue, capturedFrames, framesQueue,
                    sensitivity, srcObject, hasVideoSize, metadataEvent, onloadedmetadata,
                    liveStreams, intervals, detectionIntervalRef, tickVars, now,
                    audioVars, audioTime, history >>

\* The media element has read the stream's dimensions: videoWidth and
\* videoHeight are set and the loadedmetadata event is queued as a task.
MetadataAvailable ==
    /\ srcObject # NULL
    /\ ~hasVideoSize
    /\ hasVideoSize' = TRUE
    /\ metadataEvent' = TRUE
    /\ UNCHANGED << reactVars, pendingCamera, srcObject, onloadedmetadata, liveStreams,
                    intervals, detectionIntervalRef, tickVars, now, audioVars, audioTime,
                    history >>

\* video.onloadedmetadata: setDetection(isActive: true) and setInterval.
LoadedMetadata ==
    /\ metadataEvent
    /\ onloadedmetadata # NoClosure
    /\ Total(intervals) < MaxIntervals
    /\ mounted => QueueRoom(1)
    /\ metadataEvent' = FALSE
    /\ detectionQueue' = IF mounted THEN Append(detectionQueue, ActiveUpdate)
                         ELSE detectionQueue
    /\ intervals' = [intervals EXCEPT ![onloadedmetadata] = @ + 1]
    /\ detectionIntervalRef' = onloadedmetadata
    /\ sampled' = FALSE
    /\ UNCHANGED << mounted, detection, capturedFrames, framesQueue, error, sensitivity,
                    pendingCamera, srcObject, hasVideoSize, onloadedmetadata, liveStreams,
                    tickVars, now, audioVars, audioTime, lastRequest, startCalls, runs >>

\* stopCamera but for its setDetection call: the tracks of the stream the
\* video holds are stopped (when the video element is still referenced),
\* the interval the ref names is cleared, the alarm is stopped.
stopCamera(videoAttached) ==
    /\ IF videoAttached /\ srcObject # NULL
       THEN /\ liveStreams' = liveStreams - 1
            /\ srcObject' = NULL
            /\ hasVideoSize' = FALSE
            /\ metadataEvent' = FALSE
       ELSE UNCHANGED << liveStreams, srcObject, hasVideoSize, metadataEvent >>
    /\ IF detectionIntervalRef # NoClosure
       THEN /\ intervals' = [intervals EXCEPT ![detectionIntervalRef] = @ - 1]
            /\ detectionIntervalRef' = NoClosure
       ELSE UNCHANGED << intervals, detectionIntervalRef >>
    /\ SetAudio(stopAlarm(Audio))

\* toggleDetection, as rendered while detection.isActive is false.
toggleDetectionStart ==
    /\ mounted
    /\ ~detection.isActive
    /\ startCamera
    /\ lastRequest' = "start"
    /\ UNCHANGED << reactVars, srcObject, hasVideoSize, metadataEvent, onloadedmetadata,
                    liveStreams, intervals, detectionIntervalRef, tickVars, now,
                    audioVars, audioTime, aside >>

\* toggleDetection, as rendered while detection.isActive is true.
toggleDetectionStop ==
    /\ mounted
    /\ detection.isActive
    /\ QueueRoom(1)
    /\ stopCamera(TRUE)
    /\ detectionQueue' = Append(detectionQueue, StopUpdate)
    /\ framesQueue' = Append(framesQueue, ClearFrames)
    /\ lastRequest' = "stop"
    /\ UNCHANGED << mounted, detection, capturedFrames, error, sensitivity, pendingCamera,
                    onloadedmetadata, tickVars, now, audioTime, aside >>

toggleDetection == toggleDetectionStart \/ toggleDetectionStop

\* The cleanup of useEffect(..., []): stopCamera(); stopAlarm() (the second
\* stopAlarm finds no oscillator).  React has detached videoRef by the time
\* a passive cleanup runs on unmount, or not yet, depending on its version;
\* the state updates of an unmounted component are dropped.
Unmount ==
    /\ mounted
    /\ \E videoAttached \in BOOLEAN : stopCamera(videoAttached)
    /\ mounted' = FALSE
    /\ detectionQueue' = << >>
    /\ framesQueue' = << >>
    /\ lastRequest' = "unmount"
    /\ UNCHANGED << detection, capturedFrames, error, sensitivity, pendingCamera,
                    onloadedmetadata, tickVars, now, audioTime, aside >>

\* The range input's onChange.  It is no step of Spec: the buffers of
\* VideoFrames have one pixel, so the motion heuristic gives the same answer
\* at every sensitivity from 0 to 100.  SamplingSpec takes it, over
\* buffers on which the sensitivity decides.
setSensitivity(v) ==
    /\ mounted
    /\ v # sensitivity
    /\ sensitivity' = v
    /\ UNCHANGED << mounted, detection, detectionQueue, capturedFrames, framesQueue, error,
                    cameraVars, tickVars, now, audioVars, audioTime, history >>

\* Time passes.
Elapse ==
    /\ now + TimeStep =< PageLoadTime + MaxElapsed
    /\ now' = now + TimeStep
    /\ UNCHANGED << reactVars, cameraVars, tickVars, audioVars, audioTime, history >>

\* ------------------------------------------------------------ detection tick
\* captureFrame: null without a video, a canvas or video dimensions, else
\* canvas.toDataURL('image/webp', 1.0).
captureFrame(hasVideo, hasSize) ==
    IF ~hasVideo \/ ~hasSize THEN NULL ELSE "data:image/webp"

\* Date.now() - lastCaptureTimeRef.current > CAPTURE_COOLDOWN
CooldownElapsed(t, last) == t - last > CAPTURE_COOLDOWN

\* The capture of a tick is inside `if (previousFrameRef.current)`.
ShouldCapture(hasPrevious, motionDetected, fireDetected, t, last) ==
    hasPrevious /\ (motionDetected \/ fireDetected) /\ CooldownElapsed(t, last)

\* One run of detectMotion by an interval whose closure captured
\* sensitivity s, the video showing currentFrame.  Date.now() is read at the
\* cooldown test and again, d later (captureFrame has encoded the image in
\* between), for lastCaptureTimeRef.
detectMotion(s, currentFrame, d) ==
    /\ intervals[s] > 0
    /\ mounted
    /\ hasVideoSize
    /\ QueueRoom(2)
    /\ LET fireDetected == detectFire(currentFrame)
           hasPrevious == previousFrameRef # NoFrame
           motionDetected ==
               hasPrevious /\ MotionHeuristic(currentFrame, previousFrameRef, s)
           frameDataUrl == captureFrame(mounted, hasVideoSize)
       IN /\ detectionQueue' =
                 IF hasPrevious
                 THEN detectionQueue \o << FireUpdate(fireDetected),
                                           MotionUpdate(motionDetected) >>
                 ELSE Append(detectionQueue, FireUpdate(fireDetected))
          /\ IF /\ ShouldCapture(hasPrevious, motionDetected, fireDetected, now,
                                 lastCaptureTimeRef)
                /\ frameDataUrl # NULL
             THEN /\ now + d =< PageLoadTime + MaxElapsed
                  /\ framesQueue' = Append(framesQueue, AppendFrame(frameDataUrl))
                  /\ lastCaptureTimeRef' = now + d
                  /\ now' = now + d
             ELSE /\ d = 0
                  /\ UNCHANGED << framesQueue, lastCaptureTimeRef, now >>
          /\ previousFrameRef' = currentFrame
    /\ sampled' = TRUE
    /\ UNCHANGED << mounted, detection, capturedFrames, error, sensitivity, cameraVars,
                    audioVars, audioTime, lastRequest, startCalls, runs >>

Tick ==
    \E s \in Sensitivities, f \in VideoFrames, d \in {0, TimeStep} :
        detectMotion(s, f, d)

\* ------------------------------------------------------------ specification
Next ==
    \/ toggleDetection
    \/ \E s \in Sensitivities : CameraGranted(s)
    \/ \E s \in Sensitivities : CameraDenied(s)
    \/ MetadataAvailable
    \/ LoadedMetadata
    \/ Tick
    \/ Render
    \/ Elapse
    \/ Unmount

Spec == Init /\ [][Next]_vars

\* ------------------------------------------------------- the alarm alone
\* Granularity of the audio clock (ms), the span explored, and the number
\* of startAlarm calls in a row.
AudioStep == 100
MaxAudioTime == 1600
MaxStartCalls == 2

lifecycleVars == << reactVars, cameraVars, tickVars, now, lastRequest, runs, sampled >>

CallStartAlarm ==
    /\ startCalls < MaxStartCalls
    /\ SetAudio(startAlarm(Audio, audioTime))
    /\ startCalls' = startCalls + 1
    /\ UNCHANGED << lifecycleVars, audioTime >>

CallStopAlarm ==
    /\ SetAudio(stopAlarm(Audio))
    /\ startCalls' = 0
    /\ UNCHANGED << lifecycleVars, audioTime >>

\* AudioContext.currentTime advances once the context exists.
AudioElapse ==
    /\ audioContextRef # NULL
    /\ audioTime + AudioStep =< MaxAudioTime
    /\ audioTime' = audioTime + AudioStep
    /\ UNCHANGED << lifecycleVars, audioVars, startCalls >>

AlarmNext == CallStartAlarm \/ CallStopAlarm \/ AudioElapse

AlarmSpec == Init /\ [][AlarmNext]_vars

\* ---------------------------------------------------------------- timelapse
\* Frames a monitoring session may hold when a timelapse is requested, and
\* the number of createTimelapse invocations explored.
MaxFrames == 3
MaxRuns == 2

\* A session that has captured n frames: an active camera, one interval,
\* the captures CAPTURE_COOLDOWN + TimeStep apart.
SessionFrames(n) ==
    [k \in 1..n |-> [dataUrl |-> "data:image/webp",
                     timestamp |-> PageLoadTime + (k - 1) * (CAPTURE_COOLDOWN + TimeStep)]]

TimelapseInit ==
    /\ mounted = TRUE
    /\ detection = [isActive |-> TRUE, motionDetected |-> FALSE, fireDetected |-> FALSE]
    /\ detectionQueue = << >>
    /\ \E n \in 0..MaxFrames : capturedFrames = SessionFrames(n)
    /\ framesQueue = << >>
    /\ error = ""
    /\ sensitivity = InitialSensitivity
    /\ pendingCamera = [s \in Sensitivities |-> 0]
    /\ srcObject = "stream"
    /\ hasVideoSize = TRUE
    /\ metadataEvent = FALSE
    /\ onloadedmetadata = InitialSensitivity
    /\ liveStreams = 1
    /\ intervals = [s \in Sensitivities |-> IF s = InitialSensitivity THEN 1 ELSE 0]
    /\ detectionIntervalRef = InitialSensitivity
    /\ previousFrameRef = Dark
    /\ lastCaptureTimeRef =
           IF capturedFrames = << >> THEN InitialLastCaptureTime
           ELSE capturedFrames[Len(capturedFrames)].timestamp
    /\ now = IF capturedFrames = << >> THEN PageLoadTime ELSE lastCaptureTimeRef
    /\ audioContextRef = NULL
    /\ oscillatorRef = NoOscillator
    /\ sounding = 0
    /\ audioTime = 0
    /\ lastRequest = "start"
    /\ startCalls = 0
    /\ sampled = TRUE
    /\ runs = << >>

notRuns == << reactVars, cameraVars, tickVars, now, audioVars, audioTime, lastRequest,
              startCalls, sampled >>

\* A run as createTimelapse leaves it: the frames its closure holds, the
\* first image loading, no recorder yet; `visited` lists the indices whose
\* image was given a source, `drawn` those drawn on the canvas.
NewRun(frames) ==
    [frames |-> frames, pc |-> "firstImage", currentFrame |-> 0, recorder |-> "none",
     visited |-> << >>, drawn |-> << >>, stops |-> 0, files |-> 0]

\* A createTimelapse without the test of capturedFrames.length.
createTimelapseUnguarded ==
    /\ mounted
    /\ Len(runs) < MaxRuns
    /\ runs' = Append(runs, NewRun(capturedFrames))
    /\ UNCHANGED notRuns

\* createTimelapse, with the capturedFrames of the last render.
createTimelapse ==
    /\ mounted
    /\ IF Len(capturedFrames) < 2
       THEN /\ error' = "Not enough frames captured for timelapse"
            /\ UNCHANGED runs
       ELSE /\ Len(runs) < MaxRuns
            /\ runs' = Append(runs, NewRun(capturedFrames))
            /\ UNCHANGED error
    /\ UNCHANGED << mounted, detection, detectionQueue, capturedFrames, framesQueue,
                    sensitivity, cameraVars, tickVars, now, audioVars, audioTime,
                    lastRequest, startCalls, sampled >>

\* firstImage.onload: the recorder is created and started, drawNextFrame is
\* scheduled.
FirstImageLoaded(r) ==
    /\ r \in 1..Len(runs)
    /\ runs[r].pc = "firstImage"
    /\ runs' = [runs EXCEPT ![r].recorder = "recording", ![r].pc = "timeout"]
    /\ UNCHANGED notRuns

\* firstImage.onerror: console.error and nothing else.
FirstImageError(r) ==
    /\ r \in 1..Len(runs)
    /\ runs[r].pc = "firstImage"
    /\ runs' = [runs EXCEPT ![r].pc = "abandoned"]
    /\ UNCHANGED notRuns

\* Callbacks that read the frames of the latest render.
LatestFrames(r) == capturedFrames

\* The capturedFrames the callbacks of run r read: the constant of the
\* render createTimelapse was created in, held by their closure.
ClosureFrames(r) == runs[r].frames

\* drawNextFrame, called by the timeout: past the last frame the recorder
\* is stopped, else the next image starts loading.
drawNextFrame(r) ==
    /\ r \in 1..Len(runs)
    /\ runs[r].pc = "timeout"
    /\ runs' = IF runs[r].currentFrame >= Len(ClosureFrames(r))
               THEN [runs EXCEPT ![r].recorder = "inactive", ![r].stops = @ + 1,
                                 ![r].pc = "stopping"]
               ELSE [runs EXCEPT ![r].visited = Append(@, runs[r].currentFrame),
                                 ![r].pc = "image"]
    /\ UNCHANGED notRuns

\* img.onload (decoded: true) or img.onerror (decoded: false): both advance
\* and schedule drawNextFrame.
ImageSettled(r, decoded) ==
    /\ r \in 1..Len(runs)
    /\ runs[r].pc = "image"
    /\ runs' = [runs EXCEPT ![r].drawn = IF decoded THEN Append(@, runs[r].currentFrame)
                                         ELSE @,
                            ![r].currentFrame = @ + 1,
                            ![r].pc = "timeout"]
    /\ UNCHANGED notRuns

\* mediaRecorder.onstop: the blob is downloaded.
RecorderStopped(r) ==
    /\ r \in 1..Len(runs)
    /\ runs[r].pc = "stopping"
    /\ runs' = [runs EXCEPT ![r].files = @ + 1, ![r].pc = "done"]
    /\ UNCHANGED notRuns

TimelapseNext ==
    \/ createTimelapse
    \/ \E r \in 1..MaxRuns : FirstImageLoaded(r)
    \/ \E r \in 1..MaxRuns : FirstImageError(r)
    \/ \E r \in 1..MaxRuns : drawNextFrame(r)
    \/ \E r \in 1..MaxRuns, decoded \in BOOLEAN : ImageSettled(r, decoded)
    \/ \E r \in 1..MaxRuns : RecorderStopped(r)

TimelapseSpec == TimelapseInit /\ [][TimelapseNext]_vars

\* ------------------------------------------- timelapse while monitoring
\* A session that has captured two frames, the second one just now; the
\* origin of the clock is chosen so that time is left for a further capture.
MonitoredInit ==
    /\ mounted = TRUE
    /\ detection = [isActive |-> TRUE, motionDetected |-> FALSE, fireDetected |-> FALSE]
    /\ detectionQueue = << >>
    /\ capturedFrames =
           << [dataUrl |-> "data:image/webp",
               timestamp |-> PageLoadTime - CAPTURE_COOLDOWN - TimeStep],
              [dataUrl |-> "data:image/webp", timestamp |-> PageLoadTime] >>
    /\ framesQueue = << >>
    /\ error = ""
    /\ sensitivity = InitialSensitivity
    /\ pendingCamera = [s \in Sensitivities |-> 0]
    /\ srcObject = "stream"
    /\ hasVideoSize = TRUE
    /\ metadataEvent = FALSE
    /\ onloadedmetadata = InitialSensitivity
    /\ liveStreams = 1
    /\ intervals = [s \in Sensitivities |-> IF s = InitialSensitivity THEN 1 ELSE 0]
    /\ detectionIntervalRef = InitialSensitivity
    /\ previousFrameRef = Dark
    /\ lastCaptureTimeRef = PageLoadTime
    /\ now = PageLoadTime
    /\ audioContextRef = NULL
    /\ oscillatorRef = NoOscillator
    /\ sounding = 0
    /\ audioTime = 0
    /\ lastRequest = "start"
    /\ startCalls = 0
    /\ sampled = TRUE
    /\ runs = << >>

\* The first click on Create Timelapse.
createFirstTimelapse == runs = << >> /\ createTimelapse

\* One run is followed: its callbacks interleave with the ticks, the
\* renders and the stop of the session.
MonitoredNext ==
    \/ createFirstTimelapse
    \/ FirstImageLoaded(1)
    \/ FirstImageError(1)
    \/ drawNextFrame(1)
    \/ \E decoded \in BOOLEAN : ImageSettled(1, decoded)
    \/ RecorderStopped(1)
    \/ Tick
    \/ Render
    \/ Elapse
    \/ toggleDetectionStop

MonitoredSpec == MonitoredInit /\ [][MonitoredNext]_vars

\* ----------------------------------------------------- the two heuristics
\* Positions of the range input (min 0, max 100) that are explored.
SliderValues == {0, 30, 99, 100}

\* A session that was started with the slider at some position and whose
\* isActive has been rendered; no tick has run yet.
SamplingInit ==
    /\ mounted = TRUE
    /\ detection = [isActive |-> TRUE, motionDetected |-> FALSE, fireDetected |-> FALSE]
    /\ detectionQueue = << >>
    /\ capturedFrames = << >>
    /\ framesQueue = << >>
    /\ error = ""
    /\ sensitivity \in SliderValues
    /\ pendingCamera = [s \in Sensitivities |-> 0]
    /\ srcObject = "stream"
    /\ hasVideoSize = TRUE
    /\ metadataEvent = FALSE
    /\ onloadedmetadata = sensitivity
    /\ liveStreams = 1
    /\ intervals = [s \in SliderValues |-> IF s = sensitivity THEN 1 ELSE 0]
    /\ detectionIntervalRef = sensitivity
    /\ previousFrameRef = NoFrame
    /\ lastCaptureTimeRef = InitialLastCaptureTime
    /\ now = PageLoadTime
    /\ audioContextRef = NULL
    /\ oscillatorRef = NoOscillator
    /\ sounding = 0
    /\ audioTime = 0
    /\ lastRequest = "start"
    /\ startCalls = 0
    /\ sampled = FALSE
    /\ runs = << >>

\* The interval fires: detectMotion as the render of the start created it,
\* on whatever the video shows.
SampleTick ==
    \E s \in SliderValues, f \in SampledFrames, d \in {0, TimeStep} :
        detectMotion(s, f, d)

\* The user moves the slider.
MoveSlider == \E v \in SliderValues : setSensitivity(v)

SamplingNext == SampleTick \/ MoveSlider \/ Render

SamplingSpec == SamplingInit /\ [][SamplingNext]_vars

\* ------------------------------------------------------------------ claims
AllClear(d) == ~d.isActive /\ ~d.motionDetected /\ ~d.fireDetected

Spaced(frames) ==
    \A i, j \in 1..Len(frames) :
        i < j => frames[j].timestamp - frames[i].timestamp >= CAPTURE_COOLDOWN

\* C1: any two entries that are together in the captured-frame sequence
\* have timestamps at least CAPTURE_COOLDOWN (1000 ms) apart.
C1_CaptureSpacing == Spaced(capturedFrames)

\* C2: every stop (toggleDetection while active) leaves the component with
\* updates that render isActive, motionDetected and fireDetected false and
\* the captured-frame sequence empty, whatever was rendered or queued before.
C2_StopClears ==
    [][toggleDetectionStop => (AllClear(NextDetection.detection) /\ NextFrames = << >>)']_vars

\* A stop made while fire and motion are shown, a frame is stored and the
\* updates of a further tick that saw fire are still queued.
C2_Witness ==
    /\ lastRequest = "stop"
    /\ detection.motionDetected /\ detection.fireDetected
    /\ capturedFrames # << >>
    /\ Len(detectionQueue) = 3
    /\ detectionQueue[1] = FireUpdate(TRUE)
    /\ detectionQueue[3] = StopUpdate
    /\ framesQueue # << >> /\ framesQueue[Len(framesQueue)] = ClearFrames

\* C3: in every state of the mounted component, isActive = false implies
\* motionDetected = false and fireDetected = false.
C3_IdleFlagsClear ==
    (mounted /\ ~detection.isActive) => (~detection.motionDetected /\ ~detection.fireDetected)

\* C4: once a stop or an unmount has run and no start was requested since,
\* no interval is scheduled and no acquired stream has live tracks.
C4_ReleasedAfterStop ==
    lastRequest \in {"stop", "unmount"} => (Total(intervals) = 0 /\ liveStreams = 0)

\* C5: Idle after a stop, with every queued update applied, no tone
\* generator is active.
C5_SilentWhenIdle ==
    (mounted /\ lastRequest = "stop" /\ ~detection.isActive /\ detectionQueue = << >>)
        => (oscillatorRef = NoOscillator /\ sounding = 0)

HasFireUpdate(queue) == \E k \in 1..Len(queue) : queue[k].op = "fire"

\* C6: after a render that applied the fire update of a tick, while
\* monitoring, a tone generator is active exactly if fireDetected is true.
C6_AlarmFollowsFire ==
    [][(Render /\ HasFireUpdate(detectionQueue) /\ detection'.isActive)
         => ((oscillatorRef' # NoOscillator) <=> detection'.fireDetected)]_vars

\* The gate the 800 ms pattern prescribes, `elapsed` ms after the start.
PulseGate(elapsed) ==
    LET phase == elapsed % 800
    IN IF phase < 200 \/ (phase >= 400 /\ phase < 600) THEN 1 ELSE 0

\* C7: while an oscillator is started, its gain follows the 800 ms pattern
\* (on, off, on, off in slots of 200 ms) in every cycle.
C7_PulseRepeats ==
    oscillatorRef # NoOscillator
        => GainAt(oscillatorRef.gain, audioTime)
             = PulseGate(audioTime - oscillatorRef.gain[1].at)

\* C8: a startAlarm call made while an oscillator is referenced changes
\* neither that oscillator nor the number of sounding oscillators, and at
\* most one oscillator sounds after any sequence of startAlarm and stopAlarm
\* calls.
C8_StartAlarmIdempotent ==
    [][/\ (CallStartAlarm /\ oscillatorRef # NoOscillator)
            => (oscillatorRef' = oscillatorRef /\ sounding' = sounding)
       /\ sounding' =< 1
       /\ (sounding' = 1) <=> (oscillatorRef' # NoOscillator)]_vars

\* startAlarm was called twice in a row and the first oscillator has been
\* sounding for a while.
C8_Witness ==
    /\ startCalls = 2
    /\ sounding = 1
    /\ oscillatorRef # NoOscillator
    /\ audioTime > oscillatorRef.gain[1].at

\* C9: a sampled tick that classifies motion or fire, at least
\* CAPTURE_COOLDOWN after the last stamped capture, appends a frame and
\* stamps the capture time, whether or not a previous buffer exists.
C9_CaptureOnDetection ==
    [][\A s \in Sensitivities, f \in VideoFrames :
          ( /\ \E d \in {0, TimeStep} : detectMotion(s, f, d)
            /\ \/ detectFire(f)
               \/ previousFrameRef # NoFrame /\ MotionHeuristic(f, previousFrameRef, s)
            /\ now - lastCaptureTimeRef >= CAPTURE_COOLDOWN )
          => ( /\ Len(framesQueue') = Len(framesQueue) + 1
               /\ lastCaptureTimeRef' >= now )]_vars

\* C10: a timelapse run over N >= 2 frames that has no callback left to
\* run has stopped its recorder once, produced one file and advanced past
\* all N frames, whichever images failed to decode.
C10_RunProducesOneFile ==
    \A r \in 1..Len(runs) :
        runs[r].pc \in {"done", "abandoned"}
            => /\ runs[r].stops = 1
               /\ runs[r].files = 1
               /\ runs[r].currentFrame = Len(runs[r].frames)

\* A tick of the interval with closure s on the frame f.
TickOf(s, f) == \E d \in {0, TimeStep} : detectMotion(s, f, d)

\* The updates a tick has queued.
FireQueued(b) == detectionQueue'[Len(detectionQueue) + 1] = FireUpdate(b)
MotionQueued(b) ==
    /\ Len(detectionQueue') = Len(detectionQueue) + 2
    /\ detectionQueue'[Len(detectionQueue) + 2] = MotionUpdate(b)

FireColoured(f) ==
    Cardinality({i \in PixelOffsets(f.data) :
                    f.data[i + 1] > 200 /\ f.data[i + 2] < 140 /\ f.data[i + 3] < 40})

SameSize(f, g) == f.width = g.width /\ f.height = g.height

\* C12: a tick on a buffer whose fire-coloured pixels are at least 1 % of
\* its pixels, exactly 1 % included, classifies fire.
C12_FireAtOnePercent ==
    [][\A s \in SliderValues, f \in SampledFrames :
          (TickOf(s, f) /\ FireColoured(f) * 100 >= f.width * f.height)
              => FireQueued(TRUE)]_vars

\* The range of the slider.
SliderRange == 0..100

\* C13: a tick whose buffer is identical to the previous buffer computes
\* motionDetected = false, and the heuristic is false on two identical
\* buffers at every sensitivity from 0 to 100.
C13_IdenticalNoMotion ==
    [][\A s \in SliderValues, f \in SampledFrames :
          (f = previousFrameRef /\ TickOf(s, f))
              => /\ MotionQueued(FALSE)
                 /\ LET diffCount == DiffCount(f, previousFrameRef)
                    IN \A v \in SliderRange :
                           ~ExceedsThreshold(diffCount, f.width * f.height, v)]_vars

\* A tick at sensitivity 100 has compared a black 10 x 10 buffer with a
\* buffer that showed no fire and found no motion.
C13_Witness ==
    /\ intervals[100] = 1
    /\ previousFrameRef = Field
    /\ detectionQueue = << FireUpdate(FALSE), FireUpdate(FALSE), MotionUpdate(FALSE) >>

\* C14, as stated: at sensitivity 100 a tick on two equally sized buffers
\* that differ by a nonzero amount in some colour channel of some pixel
\* computes motionDetected = true.
C14_AnyDifference ==
    [][\A f \in SampledFrames :
          ( /\ previousFrameRef # NoFrame
            /\ SameSize(f, previousFrameRef)
            /\ \E i \in PixelOffsets(f.data), c \in 1..3 :
                   f.data[i + c] # previousFrameRef.data[i + c]
            /\ TickOf(100, f) )
          => MotionQueued(TRUE)]_vars

\* C14, amended: at sensitivity 100 the threshold is 0, so a tick on two
\* equally sized buffers computes motionDetected = true exactly if in some
\* pixel the differences of the three colour channels add up to more than 100.
C14_AnyChangedPixel ==
    [][\A f \in SampledFrames :
          ( /\ previousFrameRef # NoFrame
            /\ SameSize(f, previousFrameRef)
            /\ TickOf(100, f) )
          => MotionQueued(\E i \in PixelOffsets(f.data) :
                              PixelDiff(f.data, previousFrameRef.data, i) > 100)]_vars

\* A tick at sensitivity 100 has found motion in a 10 x 10 buffer with one
\* flame pixel (1 % of the pixels, no fire) after a buffer without fire.
C14_Witness ==
    /\ intervals[100] = 1
    /\ previousFrameRef = OneFlame
    /\ detectionQueue = << FireUpdate(FALSE), FireUpdate(FALSE), MotionUpdate(TRUE) >>

\* C16: every tick that compares two buffers (of one size) computes
\* motionDetected with the sensitivity the slider shows at the time of the
\* tick.
C16_CurrentSensitivity ==
    [][\A s \in SliderValues, f \in SampledFrames :
          (previousFrameRef # NoFrame /\ SameSize(f, previousFrameRef) /\ TickOf(s, f))
              => MotionQueued(MotionHeuristic(f, previousFrameRef, sensitivity))]_vars

\* C17: a tick whose buffer has other dimensions than the previous buffer
\* does not compute motionDetected = true.
C17_MismatchNoMotion ==
    [][\A s \in SliderValues, f \in SampledFrames :
          (previousFrameRef # NoFrame /\ ~SameSize(f, previousFrameRef) /\ TickOf(s, f))
              => ~MotionQueued(TRUE)]_vars

\* C11: createTimelapse with fewer than 2 captured frames sets the error
\* message and creates no run (no canvas, no recorder, hence no file); the
\* captured frames and the detection state, rendered and queued, are
\* unchanged, and no run ever holds fewer than 2 frames.
C11_TooFewFrames ==
    [][(createTimelapse /\ Len(capturedFrames) < 2)
         => /\ error' = "Not enough frames captured for timelapse"
            /\ runs' = runs
            /\ \A r \in 1..Len(runs') : Len(runs'[r].frames) >= 2
            /\ capturedFrames' = capturedFrames /\ framesQueue' = framesQueue
            /\ detection' = detection /\ detectionQueue' = detectionQueue]_vars

\* createTimelapse was called in a session with one captured frame.
C11_Witness ==
    /\ error = "Not enough frames captured for timelapse"
    /\ Len(capturedFrames) = 1
    /\ runs = << >>

\* C18: at most one run has an active recorder at any time.
C18_OneRunInFlight ==
    Cardinality({r \in 1..Len(runs) : runs[r].recorder = "recording"}) =< 1

\* C19: a run keeps the frames that were rendered when it was invoked; it
\* gives the indices 0, 1, 2, ... of those frames to its images in order,
\* each once, and has been through all of them when it stops its recorder,
\* whatever is captured or cleared in the meantime.
C19_RunOnSnapshot ==
    [][/\ \A r \in 1..Len(runs) : runs'[r].frames = runs[r].frames
       /\ Len(runs') > Len(runs) => runs'[Len(runs')].frames = capturedFrames
       /\ \A r \in 1..Len(runs') :
             /\ Len(runs'[r].visited) =< Len(runs'[r].frames)
             /\ \A k \in 1..Len(runs'[r].visited) : runs'[r].visited[k] = k - 1
             /\ runs'[r].pc \in {"stopping", "done"}
                    => Len(runs'[r].visited) = Len(runs'[r].frames)]_vars

\* The last frame of a run over two frames is loading after a stop has
\* emptied the rendered frames.
C19_Witness ==
    \E r \in 1..Len(runs) :
        /\ runs[r].pc = "image"
        /\ Len(runs[r].frames) = 2
        /\ runs[r].visited = << 0, 1 >>
        /\ capturedFrames = << >>
        /\ lastRequest = "stop"

\* C15: when getUserMedia rejects, the error message is set, isActive is
\* neither set nor queued, no interval is started, no stream is acquired
\* and the attempt is over with no other one begun; a new attempt begins
\* only with a click on start.  A component that was idle with this attempt
\* alone is idle with nothing in flight afterwards.
C15_FailureStaysIdle ==
    [][/\ \A s \in Sensitivities :
             (mounted /\ CameraDenied(s))
                 => /\ error' = "Failed to access camera"
                    /\ detection' = detection /\ detectionQueue' = detectionQueue
                    /\ intervals' = intervals
                    /\ detectionIntervalRef' = detectionIntervalRef
                    /\ liveStreams' = liveStreams /\ srcObject' = srcObject
                    /\ Total(pendingCamera') = Total(pendingCamera) - 1
                    /\ ( /\ ~detection.isActive /\ detectionQueue = << >>
                         /\ Total(intervals) = 0 /\ liveStreams = 0
                         /\ Total(pendingCamera) = 1 )
                           => ( /\ ~NextDetection.detection.isActive'
                                /\ Total(intervals') = 0 /\ liveStreams' = 0
                                /\ Total(pendingCamera') = 0 )
       /\ Total(pendingCamera') > Total(pendingCamera) => toggleDetectionStart]_vars

\* The only acquisition of an idle component has failed.
C15_Witness ==
    /\ mounted
    /\ lastRequest = "start"
    /\ error = "Failed to access camera"
    /\ ~detection.isActive /\ detectionQueue = << >>
    /\ Total(intervals) = 0 /\ liveStreams = 0 /\ srcObject = NULL
    /\ Total(pendingCamera) = 0

\* C20: the first tick after onloadedmetadata has started the session the
\* user asked for last (one stream, one interval, no other start in flight)
\* performs no motion comparison:
\* it queues the fire update alone, no motionDetected = true and no frame.
C20_FreshSession ==
    [][\A s \in Sensitivities, f \in VideoFrames :
          ( /\ ~sampled
            /\ lastRequest = "start"
            /\ Total(intervals) = 1 /\ liveStreams = 1 /\ Total(pendingCamera) = 0
            /\ TickOf(s, f) )
          => ( /\ Len(detectionQueue') = Len(detectionQueue) + 1
               /\ ~MotionQueued(TRUE)
               /\ framesQueue' = framesQueue )]_vars

====
